---- MODULE Spec2Model ----
(***************************************************************************)
(* Model of the analysis-and-signal pipeline of crypto_trading_bot:        *)
(* MarketAnalyzer (src/src/market_analyzer.py) and SignalGenerator         *)
(* (src/src/signal_generator.py).                                          *)
(*                                                                         *)
(* Python dicts are functions whose DOMAIN is the set of keys present; a   *)
(* key that is absent is a key that .get() answers None for.  None as a    *)
(* whole result (no analysis result, no signal) is the record None.        *)
(*                                                                         *)
(* Numbers are exact integers in fixed units (the code uses IEEE doubles;  *)
(* rounding of the last bit is not modelled):                              *)
(*   prices, ATR            price units; the last close is a multiple of   *)
(*                          100, so that 1%, 98% and 102% of it are exact  *)
(*   weights                tenths          (0.3 is 3)                     *)
(*   composite score        tenths of a point (60 is 600)                  *)
(*   thresholds, sub-scores points                                         *)
(*   volatility             thousandths     (0.02 is 20)                   *)
(*   funding rate           1/10000         (0.0001 is 1)                  *)
(*   macd, signal, hist     thousandths     (0.01 is 10)                   *)
(*   ratios and percentages fractions [num, den], not normalised           *)
(***************************************************************************)
EXTENDS Integers, Sequences, FiniteSets, TLC

VARIABLES
    pc,               \* position of the driver
    analysis_params,  \* MarketAnalyzer.params (analysis_params of the config)
    signal_params,    \* SignalGenerator.params (signal_params of the config)
    df,               \* the collected market data of the unit under analysis
    analysis_result,  \* what MarketAnalyzer.analyze returned
    signal,           \* what SignalGenerator.generate_signal returned
    now,              \* the wall clock read by pd.Timestamp.now()
    run,              \* 1 or 2: which pass over the same data is under way
    first_signal,     \* the signal of the first of two runs on the same data
    call,             \* the last direct call of one method: its name, arguments, result
    loop              \* main's loop over the (symbol, timeframe) units

vars == <<pc, analysis_params, signal_params, df, analysis_result, signal, now, run,
         first_signal, call, loop>>

------------------------------------------------------------------------------
(* Python built-ins *)

None == [none |-> TRUE]

EmptyDict == << >>

Get(d, k, default) == IF k \in DOMAIN d THEN d[k] ELSE default

Has(d, k) == k \in DOMAIN d

Min(a, b) == IF b < a THEN b ELSE a

Max(a, b) == IF b > a THEN b ELSE a

Abs(a) == IF a < 0 THEN 0 - a ELSE a

SetMax(S) == CHOOSE m \in S : \A y \in S : y <= m

SetMin(S) == CHOOSE m \in S : \A y \in S : m <= y

Range(s) == {s[i] : i \in DOMAIN s}

Frac(n, d) == [num |-> n, den |-> d]

------------------------------------------------------------------------------
(* SignalGenerator *)

DefaultWeights == [trend |-> 3, oscillators |-> 3, volume |-> 2, sentiment |-> 2]

DefaultThresholds ==
    [strong_buy |-> 80, buy |-> 60, neutral |-> 40, sell |-> 20, strong_sell |-> 0]

\* trend sub-score, signal_generator.py 132-139
TrendScore(trend) ==
    IF Get(trend, "direction", "None") = "uptrend"
    THEN Min(100, 50 + Get(trend, "strength", 0))
    ELSE IF Get(trend, "direction", "None") = "downtrend"
    THEN Max(0, 50 - Get(trend, "strength", 0))
    ELSE 50

\* oscillator sub-score, signal_generator.py 141-172
OscillatorScore(indicators) ==
    LET rsi_part ==
            IF ~Has(indicators, "rsi") THEN 0
            ELSE LET rsi == indicators["rsi"] IN
                 IF rsi > 70 THEN 20
                 ELSE IF rsi > 60 THEN 10
                 ELSE IF rsi < 30 THEN 0 - 20
                 ELSE IF rsi < 40 THEN 0 - 10
                 ELSE 0
        macd_part ==
            IF ~({"macd", "macd_signal", "macd_hist"} \subseteq DOMAIN indicators) THEN 0
            ELSE LET macd == indicators["macd"]
                     macd_signal == indicators["macd_signal"]
                     macd_hist == indicators["macd_hist"] IN
                 IF macd > macd_signal /\ macd_hist > 0 THEN 15
                 ELSE IF macd > macd_signal /\ macd_hist < 0 THEN 5
                 ELSE IF macd < macd_signal /\ macd_hist < 0 THEN 0 - 15
                 ELSE IF macd < macd_signal /\ macd_hist > 0 THEN 0 - 5
                 ELSE 0
    IN  Max(0, Min(100, 50 + rsi_part + macd_part))

\* a sentiment sub-score that leaves the market state out
SentimentScoreStateless(sentiment) ==
    LET base == IF Get(sentiment, "overall", "None") = "bullish" THEN 75
                ELSE IF Get(sentiment, "overall", "None") = "bearish" THEN 25
                ELSE 50
        funded == IF Get(sentiment, "funding_rate_impact", "None") = "long_pay"
                  THEN base - 10
                  ELSE IF Get(sentiment, "funding_rate_impact", "None") = "short_pay"
                  THEN base + 10
                  ELSE base
    IN  Max(0, Min(100, funded))

\* sentiment sub-score, signal_generator.py 177-198
SentimentScore(sentiment) ==
    LET base == IF Get(sentiment, "overall", "None") = "bullish" THEN 75
                ELSE IF Get(sentiment, "overall", "None") = "bearish" THEN 25
                ELSE 50
        funded == IF Get(sentiment, "funding_rate_impact", "None") = "long_pay"
                  THEN base - 10
                  ELSE IF Get(sentiment, "funding_rate_impact", "None") = "short_pay"
                  THEN base + 10
                  ELSE base
        stated == IF Get(sentiment, "state", "None") = "overbought"
                  THEN Max(30, funded - 20)
                  ELSE IF Get(sentiment, "state", "None") = "oversold"
                  THEN Min(70, funded + 20)
                  ELSE funded
    IN  Max(0, Min(100, stated))

\* The composite score in tenths of a point.  A weight key that is missing
\* raises KeyError at the final sum, and a part of the analysis result that
\* is None raises AttributeError at its first .get; the method answers both
\* with 50.
_calculate_score(p, ar) ==
    LET trend == Get(ar, "trend", EmptyDict)
        sentiment == Get(ar, "sentiment", EmptyDict)
        indicators == Get(ar, "indicators", EmptyDict)
        weights == Get(p, "weights", DefaultWeights)
        volume_score == 50
    IN  IF trend = None \/ indicators = None \/ sentiment = None THEN 500
        ELSE IF {"trend", "oscillators", "volume", "sentiment"} \subseteq DOMAIN weights
        THEN TrendScore(trend) * weights["trend"]
             + OscillatorScore(indicators) * weights["oscillators"]
             + volume_score * weights["volume"]
             + SentimentScore(sentiment) * weights["sentiment"]
        ELSE 500

_determine_direction_strict(p, score) ==
    LET thresholds == Get(p, "thresholds", DefaultThresholds) IN
    IF ~Has(thresholds, "buy") THEN "neutral"
    ELSE IF score > 10 * thresholds["buy"] THEN "long"
    ELSE IF ~Has(thresholds, "sell") THEN "neutral"
    ELSE IF score < 10 * thresholds["sell"] THEN "short"
    ELSE "neutral"

\* a direction that is never short
_determine_direction_long_only(p, score) ==
    LET thresholds == Get(p, "thresholds", DefaultThresholds) IN
    IF ~Has(thresholds, "buy") THEN "neutral"
    ELSE IF score >= 10 * thresholds["buy"] THEN "long"
    ELSE "neutral"

\* score is in tenths of a point, the thresholds in points.  A missing key
\* raises KeyError when it is read, which the method answers with 'neutral'.
_determine_direction(p, score) ==
    LET thresholds == Get(p, "thresholds", DefaultThresholds) IN
    IF ~Has(thresholds, "buy") THEN "neutral"
    ELSE IF score >= 10 * thresholds["buy"] THEN "long"
    ELSE IF ~Has(thresholds, "sell") THEN "neutral"
    ELSE IF score <= 10 * thresholds["sell"] THEN "short"
    ELSE "neutral"

\* an entry price that is quoted anew at each run
_determine_entry_price_requoted(direction, current_price) == current_price + 100 * (run - 1)

\* an entry price with a slippage of 0.1% against the trade
_determine_entry_price_slipped(direction, current_price) ==
    IF direction = "long" THEN current_price + current_price \div 1000
    ELSE IF direction = "short" THEN current_price - current_price \div 1000
    ELSE current_price

_determine_entry_price(direction, current_price) == current_price

\* the ATR as it is read, with no default for 0
AtrAsRead(indicators, entry_price) == Get(indicators, "atr", 0)

\* atr = indicators.get('atr', 0); 1% of the entry price when 0
AtrOrDefault(indicators, entry_price) ==
    LET atr == Get(indicators, "atr", 0) IN
    IF atr = 0 THEN entry_price \div 100 ELSE atr

\* the lowest support below the entry instead of the highest
NearestSupportLowest(supports, entry_price) ==
    LET below == {x \in Range(supports) : x < entry_price} IN
    IF below = {} THEN (entry_price * 98) \div 100 ELSE SetMin(below)

\* max([s for s in supports if s < entry_price], default=entry_price * 0.98)
NearestSupport(supports, entry_price) ==
    LET below == {x \in Range(supports) : x < entry_price} IN
    IF below = {} THEN (entry_price * 98) \div 100 ELSE SetMax(below)

\* min([r for r in resistances if r > entry_price], default=entry_price * 1.02)
NearestResistance(resistances, entry_price) ==
    LET above == {x \in Range(resistances) : x > entry_price} IN
    IF above = {} THEN (entry_price * 102) \div 100 ELSE SetMin(above)

\* the stop of the except branch: 2% from the entry
DefaultStopLoss(direction, entry_price) ==
    IF direction = "long" THEN (entry_price * 98) \div 100
    ELSE IF direction = "short" THEN (entry_price * 102) \div 100
    ELSE entry_price

\* support_resistance or indicators being None raises AttributeError at its
\* .get, which the method answers with the 2% stop
_determine_stop_loss(direction, entry_price, ar) ==
    LET sr == Get(ar, "support_resistance", EmptyDict)
        supports == Get(sr, "support", << >>)
        resistances == Get(sr, "resistance", << >>)
        indicators == Get(ar, "indicators", EmptyDict)
        atr == AtrOrDefault(indicators, entry_price)
    IN  IF sr = None \/ indicators = None THEN DefaultStopLoss(direction, entry_price)
        ELSE IF direction = "long"
        THEN IF Len(supports) > 0
             THEN LET nearest_support == NearestSupport(supports, entry_price) IN
                  IF (entry_price - nearest_support) * 100 < entry_price
                  THEN (entry_price * 98) \div 100
                  ELSE nearest_support
             ELSE entry_price - 2 * atr
        ELSE IF direction = "short"
        THEN IF Len(resistances) > 0
             THEN LET nearest_resistance == NearestResistance(resistances, entry_price) IN
                  IF (nearest_resistance - entry_price) * 100 < entry_price
                  THEN (entry_price * 102) \div 100
                  ELSE nearest_resistance
             ELSE entry_price + 2 * atr
        ELSE entry_price

\* the lowest resistance listed, wherever it lies
NextResistanceUnfiltered(resistances, entry_price, target_by_risk) ==
    SetMin(Range(resistances))

\* min([r for r in resistances if r > entry_price], default=target_by_risk)
NextResistance(resistances, entry_price, target_by_risk) ==
    LET above == {r \in Range(resistances) : r > entry_price} IN
    IF above = {} THEN target_by_risk ELSE SetMin(above)

\* max([s for s in supports if s < entry_price], default=target_by_risk)
NextSupport(supports, entry_price, target_by_risk) ==
    LET below == {x \in Range(supports) : x < entry_price} IN
    IF below = {} THEN target_by_risk ELSE SetMax(below)

\* a target at three times the stop distance, whatever the levels are
_determine_target_price_tripled(direction, entry_price, stop_loss, ar) ==
    LET stop_distance == Abs(entry_price - stop_loss) IN
    IF direction = "long" THEN entry_price + 3 * stop_distance
    ELSE IF direction = "short" THEN entry_price - 3 * stop_distance
    ELSE entry_price

\* support_resistance being None raises AttributeError at its .get, which
\* the method answers with the target at twice the stop distance
_determine_target_price(direction, entry_price, stop_loss, ar) ==
    LET sr == Get(ar, "support_resistance", EmptyDict)
        supports == Get(sr, "support", << >>)
        resistances == Get(sr, "resistance", << >>)
        stop_distance == Abs(entry_price - stop_loss)
        risk_reward == 2
    IN  IF sr = None
        THEN IF direction = "long" THEN entry_price + 2 * stop_distance
             ELSE IF direction = "short" THEN entry_price - 2 * stop_distance
             ELSE entry_price
        ELSE IF direction = "long"
        THEN LET target_by_risk == entry_price + risk_reward * stop_distance IN
             IF Len(resistances) > 0
             THEN Min(target_by_risk,
                      NextResistance(resistances, entry_price, target_by_risk))
             ELSE target_by_risk
        ELSE IF direction = "short"
        THEN LET target_by_risk == entry_price - risk_reward * stop_distance IN
             IF Len(supports) > 0
             THEN Max(target_by_risk, NextSupport(supports, entry_price, target_by_risk))
             ELSE target_by_risk
        ELSE entry_price

\* base leverage tiers of 20, 10 and 5
BaseLeverageDoubled(volatility) ==
    LET given == Get(volatility, "current", 10)
        current_volatility == IF given < 10 THEN 10 ELSE given
    IN  IF current_volatility < 20 THEN 20
        ELSE IF current_volatility < 50 THEN 10
        ELSE 5

\* base leverage tier from the volatility (thousandths), floored at 0.01
BaseLeverage(volatility) ==
    LET given == Get(volatility, "current", 10)
        current_volatility == IF given < 10 THEN 10 ELSE given
    IN  IF current_volatility < 20 THEN 10
        ELSE IF current_volatility < 50 THEN 5
        ELSE 3

\* min(int(min(base, 0.5 / risk_percent)), 20) with risk_percent = risk / entry:
\* int() truncates, and base is an integer, so int(min(base, x)) = min(base, floor(x))
SuggestedLeverage(entry_price, stop_loss, volatility) ==
    LET risk == Abs(entry_price - stop_loss)
        base_leverage == BaseLeverage(volatility)
        adjusted_leverage ==
            IF risk > 0
            THEN Min(base_leverage, entry_price \div (2 * risk))
            ELSE base_leverage
        max_leverage == 20
    IN  Min(adjusted_leverage, max_leverage)

\* the ratio taken the wrong way round
RiskRewardRatioInverted(risk, reward) ==
    IF reward > 0 THEN Frac(risk, reward) ELSE Frac(0, 1)

\* reward_percent / risk_percent if risk_percent > 0 else 0; both percentages
\* are over the same entry price, so the quotient is reward / risk
RiskRewardRatio(risk, reward) ==
    IF risk > 0 THEN Frac(reward, risk) ELSE Frac(0, 1)

\* the record of the except branch
DefaultRiskParameters ==
    [risk_percent |-> Frac(2, 1), reward_percent |-> Frac(4, 1),
     risk_reward_ratio |-> Frac(2, 1), suggested_leverage |-> 5,
     position_size_percent |-> Frac(20, 1), volatility |-> Frac(3, 1)]

\* volatility being None raises AttributeError at volatility.get
_calculate_risk_parameters(entry_price, stop_loss, target_price, ar) ==
    LET volatility == Get(ar, "volatility", EmptyDict)
        risk == Abs(entry_price - stop_loss)
        reward == Abs(target_price - entry_price)
        given == Get(volatility, "current", 10)
        current_volatility == IF given < 10 THEN 10 ELSE given
    IN  IF volatility = None THEN DefaultRiskParameters
        ELSE
        [risk_percent |-> Frac(100 * risk, entry_price),
         reward_percent |-> Frac(100 * reward, entry_price),
         risk_reward_ratio |-> RiskRewardRatio(risk, reward),
         suggested_leverage |-> SuggestedLeverage(entry_price, stop_loss, volatility),
         position_size_percent |->
             IF risk > 0 /\ reward < 3 * risk THEN Frac(10 * reward, risk)
             ELSE IF risk > 0 THEN Frac(30, 1)
             ELSE Frac(0, 1),
         volatility |-> Frac(current_volatility, 10)]

\* stars with every edge value left to the weaker rating
StarsExclusive(thresholds, score) ==
    IF ~({"strong_buy", "buy", "sell", "strong_sell"} \subseteq DOMAIN thresholds) THEN 0
    ELSE IF score > 10 * thresholds["strong_buy"] \/ score < 10 * thresholds["strong_sell"]
    THEN 5
    ELSE IF score > 10 * thresholds["buy"] \/ score < 10 * thresholds["sell"] THEN 4
    ELSE IF score > 550 \/ score < 450 THEN 3
    ELSE IF score > 520 \/ score < 480 THEN 2
    ELSE 1

\* stars from the score (tenths) and the thresholds (points); `or` reads its
\* right operand only when the left one is false
Stars(thresholds, score) ==
    LET ge(k) == Has(thresholds, k) /\ score >= 10 * thresholds[k]
        le(k) == Has(thresholds, k) /\ score <= 10 * thresholds[k]
        raises5 == ~Has(thresholds, "strong_buy")
                   \/ (~ge("strong_buy") /\ ~Has(thresholds, "strong_sell"))
        raises4 == ~Has(thresholds, "buy") \/ (~ge("buy") /\ ~Has(thresholds, "sell"))
    IN  IF raises5 THEN 0
        ELSE IF ge("strong_buy") \/ le("strong_sell") THEN 5
        ELSE IF raises4 THEN 0
        ELSE IF ge("buy") \/ le("sell") THEN 4
        ELSE IF score >= 550 \/ score <= 450 THEN 3
        ELSE IF score >= 520 \/ score <= 480 THEN 2
        ELSE 1

\* Stars = 0 stands for the KeyError, answered with the fixed default record.
\* The reliability and timing texts are given in English.
_evaluate_signal_strength(p, score) ==
    LET stars == Stars(Get(p, "thresholds", DefaultThresholds), score) IN
    IF stars = 0
    THEN [stars |-> 3, reliability |-> "fairly reliable", timing |-> "wait for confirmation"]
    ELSE [stars |-> stars,
          reliability |-> IF stars >= 4 THEN "highly reliable"
                          ELSE IF stars >= 3 THEN "quite reliable"
                          ELSE IF stars >= 2 THEN "fairly reliable"
                          ELSE "reference only",
          timing |-> IF stars >= 4 THEN "enter"
                     ELSE IF stars >= 3 THEN "consider"
                     ELSE IF stars >= 2 THEN "wait for confirmation"
                     ELSE "stay out"]

\* the signal record built from an analysis result that has a current price
BuildSignal(p, ar, clock) ==
         LET current_price == ar["last_price"]
             score == _calculate_score(p, ar)
             direction == _determine_direction(p, score)
             entry_price == _determine_entry_price(direction, current_price)
             stop_loss == _determine_stop_loss(direction, entry_price, ar)
             target_price == _determine_target_price(direction, entry_price, stop_loss, ar)
         IN  [symbol |-> Get(ar, "symbol", "None"),
              timeframe |-> Get(ar, "timeframe", "None"),
              direction |-> direction,
              score |-> score,
              entry_price |-> entry_price,
              stop_loss |-> stop_loss,
              target_price |-> target_price,
              risk_params |->
                  _calculate_risk_parameters(entry_price, stop_loss, target_price, ar),
              signal_strength |-> _evaluate_signal_strength(p, score),
              timestamp |-> clock]

\* the parts of the analysis result the methods call .get on
Parts == {"indicators", "support_resistance", "trend", "sentiment", "volatility"}

\* a generate_signal whose methods let their exceptions through to its own
\* except branch
generate_signal_unguarded(p, ar, clock) ==
    IF ar = None THEN None
    ELSE IF ~Has(ar, "last_price") THEN None
    ELSE IF \E k \in Parts \cap DOMAIN ar : ar[k] = None THEN None
    ELSE BuildSignal(p, ar, clock)

\* generate_signal: None without an analysis result or a current price
\* (a last_price of None is a key that is absent: .get answers None for
\* both), else the signal record, stamped with the clock
generate_signal(p, ar, clock) ==
    IF ar = None THEN None
    ELSE IF ~Has(ar, "last_price") THEN None
    ELSE BuildSignal(p, ar, clock)

------------------------------------------------------------------------------
(* MarketAnalyzer.  df is the collected frame of one (symbol, timeframe):   *)
(*   nbars         len(df); 0 is the empty frame                            *)
(*   close         the last close, df['close'].iloc[-1]                     *)
(*   high_tail,    the last bars' highs and lows; every earlier bar has the *)
(*   low_tail      high HighBase(df) and the low LowBase(df)                *)
(*   funding_rate  the funding_rate column (a key that may be absent)       *)
(*   talib         the last element of each array the indicator library     *)
(*                 and pandas compute from df, by name; a name is absent    *)
(*                 when that element is NaN                                 *)

MaxBars == 100

DefaultMaPeriods == <<5, 10, 20, 50, 100, 200>>

MaKey(period) ==
    CASE period = 5 -> "ma_5" [] period = 10 -> "ma_10" [] period = 20 -> "ma_20"
      [] period = 50 -> "ma_50" [] period = 100 -> "ma_100" [] OTHER -> "ma_200"

EmaKey(period) ==
    CASE period = 5 -> "ema_5" [] period = 10 -> "ema_10" [] period = 20 -> "ema_20"
      [] period = 50 -> "ema_50" [] period = 100 -> "ema_100" [] OTHER -> "ema_200"

Merge(d1, d2) == d2 @@ d1

\* the indicator families in the order the method computes them
Families == <<"ma", "ema", "rsi", "macd", "kdj", "bb", "atr", "sar", "cci", "obv">>

RECURSIVE MergeAll(_)
MergeAll(dicts) ==
    IF dicts = << >> THEN EmptyDict
    ELSE Merge(MergeAll(SubSeq(dicts, 1, Len(dicts) - 1)), dicts[Len(dicts)])

\* _calculate_indicators: nothing below 50 bars, else every family whose
\* window fits the series.  d.raises names the family whose library call
\* raises on this frame (none when the key is absent): the single except
\* around the method returns the entries stored before that call.
_calculate_indicators(ap, d) ==
    IF d.nbars < 50 THEN EmptyDict
    ELSE
    LET t == d.talib
        periods == {p \in Range(Get(ap, "ma_periods", DefaultMaPeriods)) : d.nbars >= p}
        ma == [k \in {MaKey(p) : p \in periods} |->
                 LET p == CHOOSE q \in periods : MaKey(q) = k IN t.sma[p]]
        ema == [k \in {EmaKey(p) : p \in periods} |->
                 LET p == CHOOSE q \in periods : EmaKey(q) = k IN t.ema[p]]
        rsi == IF d.nbars >= Get(Get(ap, "rsi", EmptyDict), "period", 14)
               THEN [rsi |-> t.rsi] ELSE EmptyDict
        macd_params == Get(ap, "macd", EmptyDict)
        macd == IF d.nbars >= Get(macd_params, "slow_period", 26)
                              + Get(macd_params, "signal_period", 9)
                THEN [macd |-> t.macd, macd_signal |-> t.macd_signal,
                      macd_hist |-> t.macd_hist]
                ELSE EmptyDict
        kdj_params == Get(ap, "kdj", EmptyDict)
        kdj == IF d.nbars >= Get(kdj_params, "k_period", 9) + Get(kdj_params, "d_period", 3)
               THEN [k |-> t.k, d |-> t.d, j |-> 3 * t.k - 2 * t.d]
               ELSE EmptyDict
        bb == IF d.nbars >= Get(Get(ap, "bollinger", EmptyDict), "period", 20)
              THEN [bb_upper |-> t.bb_upper, bb_middle |-> t.bb_middle,
                    bb_lower |-> t.bb_lower,
                    bb_width |-> Frac(t.bb_upper - t.bb_lower, t.bb_middle)]
              ELSE EmptyDict
        atr == [atr |-> t.atr, atr_percent |-> Frac(t.atr, d.close)]
        sar == [sar |-> t.sar]
        cci == [cci |-> t.cci]
        obv == [obv |-> t.obv,
                obv_change |-> IF Abs(t.obv_10) > 0
                               THEN Frac(t.obv - t.obv_10, Abs(t.obv_10))
                               ELSE Frac(0, 1)]
        computed == <<ma, ema, rsi, macd, kdj, bb, atr, sar, cci, obv>>
        failing == {i \in 1..Len(Families) :
                       Families[i] = Get(d, "raises", "none") /\ DOMAIN computed[i] # {}}
        last == IF failing = {} THEN Len(Families) ELSE SetMin(failing) - 1
    IN  MergeAll(SubSeq(computed, 1, last))

\* the keys of the indicator dict that start with 'ma_'
MaKeys(indicators) ==
    DOMAIN indicators \cap {"ma_5", "ma_10", "ma_20", "ma_50", "ma_100", "ma_200"}

StructureDefault == [structure |-> "neutral", strength |-> Frac(0, 1), description |-> ""]

\* strength = 0.4 * ma_score + 0.2 * (rsi_score + macd_score + bb_score), as the
\* fraction (400 * above + 2 * total * (rsi + macd + bb)) / (10 * total)
StructureOf(d, indicators) ==
    LET current_price == d.close
        ma_total == Cardinality(MaKeys(indicators))
        ma_count_above ==
            Cardinality({k \in MaKeys(indicators) : current_price > indicators[k]})
        rsi_score ==
            IF ~Has(indicators, "rsi") THEN 0
            ELSE LET rsi == indicators["rsi"] IN
                 IF rsi > 70 THEN 90
                 ELSE IF rsi > 60 THEN 70
                 ELSE IF rsi > 50 THEN 60
                 ELSE IF rsi > 40 THEN 40
                 ELSE IF rsi > 30 THEN 30
                 ELSE 10
        macd_score ==
            IF ~({"macd", "macd_signal", "macd_hist"} \subseteq DOMAIN indicators) THEN 50
            ELSE LET macd == indicators["macd"]
                     macd_signal == indicators["macd_signal"]
                     macd_hist == indicators["macd_hist"] IN
                 IF macd > macd_signal /\ macd_hist > 0 THEN 80
                 ELSE IF macd > macd_signal /\ macd_hist < 0 THEN 60
                 ELSE IF macd < macd_signal /\ macd_hist < 0 THEN 20
                 ELSE 40
        bb_score ==
            IF ~({"bb_upper", "bb_middle", "bb_lower"} \subseteq DOMAIN indicators) THEN 50
            ELSE IF current_price > indicators["bb_upper"] THEN 90
            ELSE IF current_price > indicators["bb_middle"] THEN 70
            ELSE IF current_price < indicators["bb_lower"] THEN 10
            ELSE IF current_price < indicators["bb_middle"] THEN 30
            ELSE 50
        others == rsi_score + macd_score + bb_score
        strength == IF ma_total > 0
                    THEN Frac(400 * ma_count_above + 2 * ma_total * others, 10 * ma_total)
                    ELSE Frac(2 * others, 10)
    IN  IF strength.num >= 70 * strength.den
        THEN [structure |-> "bullish", strength |-> strength,
              description |-> "bullish structure, price above most moving averages"]
        ELSE IF strength.num <= 30 * strength.den
        THEN [structure |-> "bearish", strength |-> strength,
              description |-> "bearish structure, price below most moving averages"]
        ELSE [structure |-> "neutral", strength |-> strength,
              description |-> "neutral structure, price around the moving averages"]

_analyze_market_structure_10(d, indicators) ==
    IF d.nbars < 10 THEN StructureDefault ELSE StructureOf(d, indicators)

_analyze_market_structure(d, indicators) ==
    IF d.nbars < 20 THEN StructureDefault ELSE StructureOf(d, indicators)

\* round(n / d, 2) in hundredths, ties to even as Python rounds
RoundHundredths(n, d) ==
    LET fl == (100 * n) \div d
        twice == 2 * ((100 * n) % d)
    IN  IF twice > d THEN fl + 1
        ELSE IF twice < d THEN fl
        ELSE IF fl % 2 = 0 THEN fl ELSE fl + 1

\* the sentiment score of _analyze_sentiment in tenths of a point
SentimentRaw(d, indicators) ==
    LET rsi_part == IF Has(indicators, "rsi") THEN 5 * (indicators["rsi"] - 50) ELSE 0
        macd_part ==
            IF ~Has(indicators, "macd_hist") THEN 0
            ELSE LET macd_hist == indicators["macd_hist"] IN
                 IF macd_hist > 0 THEN Min(100, 10 * macd_hist)
                 ELSE 0 - Min(100, 10 * Abs(macd_hist))
        kdj_part ==
            IF ~({"k", "d"} \subseteq DOMAIN indicators) THEN 0
            ELSE LET k == indicators["k"]
                     dd == indicators["d"] IN
                 (IF k > dd THEN 50 ELSE IF k < dd THEN 0 - 50 ELSE 0)
                 + (IF k > 80 THEN 50 ELSE IF k < 20 THEN 0 - 50 ELSE 0)
        funding_part == IF Has(d, "funding_rate") /\ d.nbars > 0
                        THEN 0 - d.funding_rate ELSE 0
    IN  500 + rsi_part + macd_part + kdj_part + funding_part

\* long_short_ratio is in hundredths
_analyze_sentiment(d, indicators) ==
    LET funding_rate_impact ==
            IF Has(d, "funding_rate") /\ d.nbars > 0
            THEN IF d.funding_rate > 1 THEN "long_pay"
                 ELSE IF d.funding_rate < 0 - 1 THEN "short_pay"
                 ELSE "neutral"
            ELSE "neutral"
        state == IF ~Has(indicators, "rsi") THEN "normal"
                 ELSE IF indicators["rsi"] > 70 THEN "overbought"
                 ELSE IF indicators["rsi"] < 30 THEN "oversold"
                 ELSE "normal"
        sentiment_score == SentimentRaw(d, indicators)
        ratio == IF sentiment_score > 500 THEN sentiment_score - 400
                 ELSE IF sentiment_score < 500
                 THEN RoundHundredths(100, 600 - sentiment_score)
                 ELSE 100
    IN  [overall |-> IF sentiment_score >= 700 THEN "bullish"
                     ELSE IF sentiment_score <= 300 THEN "bearish"
                     ELSE "neutral",
         long_short_ratio |-> ratio,
         state |-> state,
         funding_rate_impact |-> funding_rate_impact]

\* the available moving averages of periods 5, 10, 20, 50, 100, by period
MaValues(indicators) ==
    LET keys == [i \in 1..5 |-> MaKey(DefaultMaPeriods[i])]
        present == {i \in 1..5 : Has(indicators, keys[i])}
        Nth[n \in 0..5] ==
            IF n = 0 THEN << >>
            ELSE IF n \in present THEN Append(Nth[n - 1], indicators[keys[n]])
            ELSE Nth[n - 1]
    IN  Nth[5]

\* ma_aligned_up as the loop of lines 591-596 leaves it
ma_aligned_up(indicators) ==
    LET ma_values == MaValues(indicators) IN
    Len(ma_values) >= 3 => \A i \in 1..(Len(ma_values) - 1) : ~(ma_values[i] > ma_values[i + 1])

ma_aligned_down(indicators) ==
    LET ma_values == MaValues(indicators) IN
    Len(ma_values) >= 3 => \A i \in 1..(Len(ma_values) - 1) : ~(ma_values[i] < ma_values[i + 1])

above_ma(indicators, key, current_price) ==
    Has(indicators, key) /\ current_price > indicators[key]

TrendDefault == [direction |-> "sideways", strength |-> 0, description |-> ""]

\* a trend whose strength is the ADX itself
_determine_trend_adx(d, indicators) ==
    IF d.nbars < 20 THEN TrendDefault
    ELSE
    LET current_price == d.close
        above_ma50 == above_ma(indicators, "ma_50", current_price)
        above_ma100 == above_ma(indicators, "ma_100", current_price)
        adx == Get(d.talib, "adx", 0)
    IN  IF ma_aligned_up(indicators) /\ above_ma50 /\ above_ma100
        THEN [direction |-> "uptrend", strength |-> adx, description |-> ""]
        ELSE IF ma_aligned_down(indicators) /\ ~above_ma50 /\ ~above_ma100
        THEN [direction |-> "downtrend", strength |-> adx, description |-> ""]
        ELSE [direction |-> "sideways", strength |-> Max(0, adx - 15), description |-> ""]

\* adx = talib.ADX(...)[-1]; NaN (absent) below 28 bars.  adx is even, so
\* that adx / 2 is an integer.  min(100, NaN) is 100 and max(0, NaN) is 0.
_determine_trend(d, indicators) ==
    IF d.nbars < 20 THEN TrendDefault
    ELSE
    LET current_price == d.close
        above_ma50 == above_ma(indicators, "ma_50", current_price)
        above_ma100 == above_ma(indicators, "ma_100", current_price)
        nan == ~Has(d.talib, "adx")
        adx == Get(d.talib, "adx", 0)
        trending == IF nan THEN 100 ELSE Min(100, 50 + adx \div 2)
        strong == ~nan /\ adx > 25
    IN  IF ma_aligned_up(indicators) /\ above_ma50 /\ above_ma100
        THEN [direction |-> "uptrend", strength |-> trending,
              description |-> IF strong THEN "strong uptrend, bullish alignment"
                              ELSE "mild uptrend, bullish alignment"]
        ELSE IF ma_aligned_down(indicators) /\ ~above_ma50 /\ ~above_ma100
        THEN [direction |-> "downtrend", strength |-> trending,
              description |-> IF strong THEN "strong downtrend, bearish alignment"
                              ELSE "mild downtrend, bearish alignment"]
        ELSE [direction |-> "sideways",
              strength |-> IF nan THEN 0 ELSE Max(0, adx - 15),
              description |-> "sideways, no clear trend"]

NaN == [nan |-> TRUE]

VolatilityDefault == [current |-> 0, average |-> 0, state |-> "normal", description |-> ""]

\* current = returns.std() * sqrt(365) and average = the mean of the rolling
\* 20-period std * sqrt(365), both computed by pandas; the average is NaN
\* (absent from d.talib) when there are fewer than 20 returns
_analyze_volatility(d) ==
    IF d.nbars < 20 THEN VolatilityDefault
    ELSE
    LET current_volatility == d.talib.volatility
        nan == ~Has(d.talib, "avg_volatility")
        avg_volatility == Get(d.talib, "avg_volatility", 0)
    IN  IF ~nan /\ 2 * current_volatility > 3 * avg_volatility
        THEN [current |-> current_volatility, average |-> avg_volatility,
              state |-> "high", description |-> "high volatility"]
        ELSE IF ~nan /\ 2 * current_volatility < avg_volatility
        THEN [current |-> current_volatility, average |-> avg_volatility,
              state |-> "low", description |-> "low volatility"]
        ELSE [current |-> current_volatility,
              average |-> IF nan THEN NaN ELSE avg_volatility,
              state |-> "normal", description |-> "normal volatility"]

------------------------------------------------------------------------------
(* Level detector *)

\* high[i] and low[i], i from 0 as in the code
High(d, i) ==
    LET first == d.nbars - Len(d.high_tail) IN
    IF i >= first THEN d.high_tail[i - first + 1] ELSE d.high_base

Low(d, i) ==
    LET first == d.nbars - Len(d.low_tail) IN
    IF i >= first THEN d.low_tail[i - first + 1] ELSE d.low_base

\* the local highs and lows of lines 260-267, as (i, price)
LocalHighs(d) ==
    {[i |-> i, price |-> High(d, i)] : i \in
        {j \in 2..(d.nbars - 3) :
            /\ High(d, j) > High(d, j - 1) /\ High(d, j) > High(d, j - 2)
            /\ High(d, j) > High(d, j + 1) /\ High(d, j) > High(d, j + 2)}}

LocalLows(d) ==
    {[i |-> i, price |-> Low(d, i)] : i \in
        {j \in 2..(d.nbars - 3) :
            /\ Low(d, j) < Low(d, j - 1) /\ Low(d, j) < Low(d, j - 2)
            /\ Low(d, j) < Low(d, j + 1) /\ Low(d, j) < Low(d, j + 2)}}

\* sorted(levels, key=price): stable, the list is in index order
RECURSIVE SortedByPrice(_)
SortedByPrice(levels) ==
    IF levels = {} THEN << >>
    ELSE LET m == CHOOSE x \in levels : \A y \in levels :
                      x.price < y.price \/ (x.price = y.price /\ x.i <= y.i)
         IN  <<m.price>> \o SortedByPrice(levels \ {m})

\* the loop of merge_levels from position k on, current being the running
\* level; the averaged index is never read and is left out.  The prices of
\* the extrema are chosen so that the averages are integers.
RECURSIVE MergeFrom(_, _, _)
MergeFrom(sorted_levels, k, current) ==
    IF k > Len(sorted_levels) THEN <<current>>
    ELSE IF 200 * Abs(sorted_levels[k] - current) < current
    THEN MergeFrom(sorted_levels, k + 1, (current + sorted_levels[k]) \div 2)
    ELSE <<current>> \o MergeFrom(sorted_levels, k + 1, sorted_levels[k])

\* the merged level each sorted extremum ends up in, from position k on:
\* n is the level in the making (len(merged) + 1), current its running price
RECURSIVE MergedInto(_, _, _, _)
MergedInto(sorted_levels, k, current, n) ==
    IF k > Len(sorted_levels) THEN << >>
    ELSE IF 200 * Abs(sorted_levels[k] - current) < current
    THEN <<n>> \o MergedInto(sorted_levels, k + 1, (current + sorted_levels[k]) \div 2, n)
    ELSE <<n + 1>> \o MergedInto(sorted_levels, k + 1, sorted_levels[k], n + 1)

merge_levels(levels) ==
    IF levels = {} THEN << >>
    ELSE LET sorted_levels == SortedByPrice(levels) IN
         MergeFrom(sorted_levels, 2, sorted_levels[1])

\* list.sort() of prices, ascending
RECURSIVE Sorted(_)
Sorted(s) ==
    IF Len(s) = 0 THEN << >>
    ELSE LET k == CHOOSE i \in DOMAIN s : \A j \in DOMAIN s : s[i] <= s[j]
         IN  <<s[k]>> \o Sorted(SubSeq(s, 1, k - 1) \o SubSeq(s, k + 1, Len(s)))

\* a reversal that leaves the list as it is
Unreversed(s) == s

Reversed(s) == [i \in DOMAIN s |-> s[Len(s) + 1 - i]]

\* a slice that keeps the whole list
TakeAll(s, n) == s

\* s[:n]
Take(s, n) == SubSeq(s, 1, Min(n, Len(s)))

\* _identify_support_resistance with n_levels = 2.  The ATR is even, so that
\* half of it is an integer.
_identify_support_resistance(d) ==
    IF d.nbars < 30 THEN [support |-> << >>, resistance |-> << >>]
    ELSE
    LET n_levels == 2
        current_price == d.close
        IsAbove(price) == price > current_price
        IsBelow(price) == price < current_price
        highs_above == Sorted(SelectSeq(merge_levels(LocalHighs(d)), IsAbove))
        lows_below == Reversed(Sorted(SelectSeq(merge_levels(LocalLows(d)), IsBelow)))
        resistance == Take(highs_above, n_levels)
        support == Take(lows_below, n_levels)
        atr == d.talib.atr
        more_resistance ==
            [i \in 1..(n_levels - Len(resistance)) |-> current_price + (i * atr) \div 2]
        more_support ==
            [i \in 1..(n_levels - Len(support)) |-> current_price - (i * atr) \div 2]
    IN  [support |-> Reversed(Sorted(support \o more_support)),
         resistance |-> Sorted(resistance \o more_resistance)]

\* analyze: None for an empty frame, else the six analyses and the last close
analyze(ap, d, symbol, timeframe) ==
    IF d.nbars = 0 THEN None
    ELSE LET indicators == _calculate_indicators(ap, d) IN
         [symbol |-> symbol,
          timeframe |-> timeframe,
          indicators |-> indicators,
          support_resistance |-> _identify_support_resistance(d),
          market_structure |-> _analyze_market_structure(d, indicators),
          sentiment |-> _analyze_sentiment(d, indicators),
          trend |-> _determine_trend(d, indicators),
          volatility |-> _analyze_volatility(d),
          last_price |-> d.close,
          data |-> d]

------------------------------------------------------------------------------
(* The inputs *)

MaxClock == 1

\* thresholds and weights as tests/test_signal_generator.py configures them
TestSignalParams == [thresholds |-> DefaultThresholds, weights |-> DefaultWeights]

Restrict(f, keys) == [k \in DOMAIN f \cap keys |-> f[k]]

\* moving averages by period: from ma_5 = base, two steps of s1 (to ma_10, to
\* ma_20) and two of s2 (to ma_50, to ma_100); ma_200 like ma_100
MaProfiles ==
    {(5 :> base) @@ (10 :> base + s1) @@ (20 :> base + 2 * s1)
        @@ (50 :> base + 2 * s1 + s2) @@ (100 :> base + 2 * s1 + 2 * s2)
        @@ (200 :> base + 2 * s1 + 2 * s2) :
        base \in {950, 1050}, s1 \in {0 - 10, 10}, s2 \in {0 - 10, 10}}

\* the oscillators of a rising and of a falling market
OscillatorCases ==
    {[macd |-> 20, macd_signal |-> 5, macd_hist |-> 15, k |-> 85, d |-> 80,
      bb_upper |-> 1020, bb_middle |-> 990, bb_lower |-> 960],
     [macd |-> 0 - 20, macd_signal |-> 0 - 5, macd_hist |-> 0 - 15, k |-> 15, d |-> 20,
      bb_upper |-> 1050, bb_middle |-> 1010, bb_lower |-> 970]}

VolatilityCases ==
    {[volatility |-> 15, avg_volatility |-> 15],
     [volatility |-> 80, avg_volatility |-> 40]}

\* every value the libraries compute from a frame of at least 50 bars
FullTalib ==
    {[sma |-> m, ema |-> m, rsi |-> r,
      macd |-> c.macd, macd_signal |-> c.macd_signal, macd_hist |-> c.macd_hist,
      k |-> c.k, d |-> c.d,
      bb_upper |-> c.bb_upper, bb_middle |-> c.bb_middle, bb_lower |-> c.bb_lower,
      atr |-> a, sar |-> 980, cci |-> 50, obv |-> 5000, obv_10 |-> 4000,
      adx |-> x, volatility |-> v.volatility, avg_volatility |-> v.avg_volatility] :
        m \in MaProfiles, r \in {25, 55, 75}, c \in OscillatorCases, a \in {10, 300},
        x \in {10, 40}, v \in VolatilityCases}

\* what is defined for a frame of n bars: the volatility from 20 bars on (the
\* analyzers below do not run on fewer), its rolling average from 21, the
\* ADX from 28, the ATR from 15, the rest is read from 50 bars on only
TalibKeys(n) ==
    IF n >= 50 THEN DOMAIN (CHOOSE t \in FullTalib : TRUE)
    ELSE (IF n >= 20 THEN {"volatility"} ELSE {})
         \cup (IF n >= 21 THEN {"avg_volatility"} ELSE {})
         \cup (IF n >= 28 THEN {"adx"} ELSE {})
         \cup (IF n >= 30 THEN {"atr"} ELSE {})

HighTails(close) ==
    LET b == close + 2 IN {<<b, b, b, b, b>>, <<b, b, close + 100, b, b>>}

LowTails(close) ==
    LET b == close - 2 IN
    {<<b, b, b, b, b>>, <<b, b, close - 50, b, b>>, <<b, b, (close * 4) \div 10, b, b>>,
     <<b, b, (close * 4) \div 10, b, b, (close * 3) \div 10, b, b>>}

\* highs and lows of the last bars, bar by bar: every flat or peaked high
\* tail with every low tail; a range traded below the last close, with a
\* local high under it; a range traded above the last close, with a local
\* low over it
TailPairs(close) ==
    (HighTails(close) \X LowTails(close))
    \cup {<<<<close - 100, close - 100, close - 50, close - 100, close - 100,
              close + 2, close + 2>>,
            <<close - 110, close - 110, close - 60, close - 110, close - 110,
              close - 2, close - 2>>>>,
          <<<<close + 110, close + 110, close + 60, close + 110, close + 110,
              close + 2, close + 2>>,
            <<close + 100, close + 100, close + 50, close + 100, close + 100,
              close - 2, close - 2>>>>}

BarCounts == {0, 1, 19, 20, 29, 30, 49, 50, MaxBars}

Frames ==
    {[nbars |-> n, close |-> 1000, high_base |-> 1002, low_base |-> 998,
      high_tail |-> hl[1], low_tail |-> hl[2], funding_rate |-> f,
      talib |-> Restrict(t, TalibKeys(n))] :
        n \in BarCounts, t \in FullTalib, f \in {0 - 300, 0, 2},
        hl \in TailPairs(1000)}

\* a frame of fewer than 30 bars is not scanned for extrema
DataFrames ==
    {IF d.nbars >= 30 THEN d
     ELSE [d EXCEPT !.high_tail = << >>, !.low_tail = << >>] : d \in Frames}

------------------------------------------------------------------------------
(* The pipeline of one (symbol, timeframe), start.py 104-121, run twice on   *)
(* the same data                                                            *)

NoCall == [fn |-> "none"]

NoLoop == [pc |-> "off"]

Init ==
    /\ pc = "analyze"
    /\ analysis_params = EmptyDict
    /\ signal_params = TestSignalParams
    /\ df \in DataFrames
    /\ analysis_result = None
    /\ signal = None
    /\ now = 0
    /\ run = 1
    /\ first_signal = None
    /\ call = NoCall
    /\ loop = NoLoop

Analyze ==
    /\ pc = "analyze"
    /\ analysis_result' = analyze(analysis_params, df, "BTC/USDT", "1h")
    /\ pc' = "generate"
    /\ UNCHANGED <<analysis_params, signal_params, df, signal, now, run, first_signal, call,
                   loop>>

\* the clock has not gone back since it was last read
GenerateSignal ==
    /\ pc = "generate"
    /\ \E t \in now..MaxClock :
        /\ now' = t
        /\ signal' = generate_signal(signal_params, analysis_result, t)
    /\ pc' = "report"
    /\ UNCHANGED <<analysis_params, signal_params, df, analysis_result, run, first_signal, call,
                   loop>>

Rerun ==
    /\ pc = "report"
    /\ run = 1
    /\ first_signal' = signal
    /\ run' = 2
    /\ analysis_result' = None
    /\ signal' = None
    /\ pc' = "analyze"
    /\ UNCHANGED <<analysis_params, signal_params, df, now, call, loop>>

Finish ==
    /\ pc = "report"
    /\ run = 2
    /\ pc' = "done"
    /\ UNCHANGED <<analysis_params, signal_params, df, analysis_result, signal, now, run,
                   first_signal, call, loop>>

Next == Analyze \/ GenerateSignal \/ Rerun \/ Finish

Spec == Init /\ [][Next]_vars

------------------------------------------------------------------------------
(* Direct calls of single methods on arbitrary arguments, as the unit tests  *)
(* of tests/ make them                                                      *)

MaxScore == 1100

MaxLevels == 2

Directions == {"long", "short", "neutral"}

\* scores in tenths of a point, some of them outside 0..100
Scores == (0 - 100)..MaxScore

ThresholdConfigs ==
    {EmptyDict,
     [thresholds |-> DefaultThresholds],
     [thresholds |-> [strong_buy |-> 90, buy |-> 70, neutral |-> 50, sell |-> 30,
                      strong_sell |-> 10]],
     [thresholds |-> [strong_buy |-> 60, buy |-> 40, neutral |-> 50, sell |-> 60,
                      strong_sell |-> 40]],
     [thresholds |-> [strong_buy |-> 80, buy |-> 60]],
     [thresholds |-> [sell |-> 20, strong_sell |-> 0]]}

WeightConfigs ==
    {EmptyDict,
     [weights |-> DefaultWeights],
     [weights |-> [trend |-> 10, oscillators |-> 10, volume |-> 10, sentiment |-> 10]],
     [weights |-> [trend |-> 5, oscillators |-> 5, volume |-> 0, sentiment |-> 0]],
     [weights |-> [trend |-> 0, oscillators |-> 0, volume |-> 0, sentiment |-> 10]],
     [weights |-> [trend |-> 3, oscillators |-> 3, sentiment |-> 2]]}

TrendResults ==
    {[direction |-> dir, strength |-> st, description |-> ""] :
        dir \in {"uptrend", "downtrend", "sideways"}, st \in {0, 25, 50, 100}}

SentimentResults ==
    [overall : {"bullish", "bearish", "neutral"},
     state : {"overbought", "oversold", "normal"},
     funding_rate_impact : {"long_pay", "short_pay", "neutral"}]

RsiDicts == {EmptyDict} \cup {[rsi |-> r] : r \in {25, 30, 35, 50, 65, 70, 75}}

MacdDicts ==
    {EmptyDict} \cup
    {[macd |-> m, macd_signal |-> 0, macd_hist |-> h] : m \in {0 - 10, 10}, h \in {0 - 10, 10}}

\* all lists of at most n of the values
RECURSIVE ListsUpTo(_, _)
ListsUpTo(values, n) ==
    IF n = 0 THEN {<< >>}
    ELSE LET shorter == ListsUpTo(values, n - 1) IN
         shorter \cup {Append(l, v) : l \in shorter, v \in values}

\* levels far below, below, 1% below, just below, at, just above, 1% above,
\* above and far above a price
LevelValues(price) ==
    {(price * k) \div 1000 : k \in {400, 950, 990, 995, 1000, 1005, 1010, 1050, 1600}}

\* the levels of the mock analysis result of tests/test_signal_generator.py
\* for one side, any list for the other
LevelSets(price) ==
    {[support |-> l, resistance |-> <<(price * 1025) \div 1000, (price * 1050) \div 1000>>] :
        l \in ListsUpTo(LevelValues(price), MaxLevels)}
    \cup
    {[support |-> <<(price * 975) \div 1000, (price * 950) \div 1000>>, resistance |-> l] :
        l \in ListsUpTo(LevelValues(price), MaxLevels)}

AtrDicts == {EmptyDict} \cup {[atr |-> a] : a \in {0, 10, 800}}

VolatilityResults ==
    {EmptyDict} \cup
    {[current |-> v, average |-> 15, state |-> "normal", description |-> ""] :
        v \in {0, 5, 10, 15, 20, 30, 50, 80}}

EntryPrices == {1000, 40000}

\* a stop or target at k percent of the entry price
PricesAround(entry_price) ==
    {(entry_price * k) \div 100 :
        k \in {40, 49, 50, 51, 90, 96, 98, 99, 100, 101, 102, 104, 110, 150, 151, 160}}

\* the moving averages a configuration of ma_periods can leave in the dict
MaDicts ==
    LET keys == {"ma_5", "ma_10", "ma_20", "ma_50", "ma_100"} IN
    UNION {[present -> {980, 1000, 1020}] : present \in SUBSET keys}

TrendFrames ==
    {[nbars |-> n, close |-> 1000, talib |-> t] :
        n \in {19, 20, 50, MaxBars}, t \in {EmptyDict, [adx |-> 10], [adx |-> 40]}}

\* configurations of the analyzer: the defaults, and the periods of
\* tests/test_market_analyzer.py
AnalysisParams == {EmptyDict, [ma_periods |-> <<5, 10, 20>>]}

\* frames for the indicator calculation alone, on which no library call
\* raises or the call of one family does
IndicatorFrames ==
    LET plain == {[nbars |-> n, close |-> 1000, talib |-> t] :
                     n \in {4, 5, 30, 49, 50, MaxBars},
                     t \in {u \in FullTalib : u.rsi = 55 /\ u.atr = 10 /\ u.adx = 10
                                                /\ u.volatility = 15}}
    IN  plain \cup {Merge(d, [raises |-> Families[i]]) :
                        d \in plain, i \in 1..Len(Families)}

InitUnit ==
    /\ pc = "unit"
    /\ analysis_params = EmptyDict
    /\ signal_params = TestSignalParams
    /\ df = EmptyDict
    /\ analysis_result = None
    /\ signal = None
    /\ now = 0
    /\ run = 1
    /\ first_signal = None
    /\ call = NoCall
    /\ loop = NoLoop

\* one call in a behaviour: the methods keep no state between calls
Idle == pc = "unit" /\ call = NoCall

Called(c) ==
    /\ call' = c
    /\ UNCHANGED <<pc, analysis_params, signal_params, df, analysis_result, signal, now,
                   run, first_signal, loop>>

CallCalculateScore ==
    /\ Idle
    /\ \E p \in WeightConfigs, t \in TrendResults, r \in RsiDicts, m \in MacdDicts,
       se \in SentimentResults :
        LET ar == [trend |-> t, indicators |-> Merge(r, m), sentiment |-> se,
                   last_price |-> 1000]
        IN  Called([fn |-> "_calculate_score", params |-> p, analysis_result |-> ar,
                    ret |-> _calculate_score(p, ar)])

CallDetermineDirection ==
    /\ Idle
    /\ \E p \in ThresholdConfigs, score \in Scores :
        Called([fn |-> "_determine_direction", params |-> p, score |-> score,
                ret |-> _determine_direction(p, score)])

CallDetermineStopLoss ==
    /\ Idle
    /\ \E direction \in Directions, entry_price \in EntryPrices, a \in AtrDicts :
        \E sr \in LevelSets(entry_price) :
            LET ar == [support_resistance |-> sr, indicators |-> a,
                       last_price |-> entry_price]
            IN  Called([fn |-> "_determine_stop_loss", direction |-> direction,
                        entry_price |-> entry_price, analysis_result |-> ar,
                        ret |-> _determine_stop_loss(direction, entry_price, ar)])

CallDetermineTargetPrice ==
    /\ Idle
    /\ \E direction \in Directions, entry_price \in EntryPrices :
        \E stop_loss \in PricesAround(entry_price),
           sr \in LevelSets(entry_price) \cup {None} :
            LET ar == [support_resistance |-> sr, last_price |-> entry_price]
            IN  Called([fn |-> "_determine_target_price", direction |-> direction,
                        entry_price |-> entry_price, stop_loss |-> stop_loss,
                        analysis_result |-> ar,
                        ret |-> _determine_target_price(direction, entry_price,
                                                        stop_loss, ar)])

CallCalculateRiskParameters ==
    /\ Idle
    /\ \E entry_price \in EntryPrices, v \in VolatilityResults :
        \E stop_loss \in PricesAround(entry_price), target_price \in PricesAround(entry_price) :
            LET ar == [volatility |-> v, last_price |-> entry_price]
            IN  Called([fn |-> "_calculate_risk_parameters", entry_price |-> entry_price,
                        stop_loss |-> stop_loss, target_price |-> target_price,
                        analysis_result |-> ar,
                        ret |-> _calculate_risk_parameters(entry_price, stop_loss,
                                                           target_price, ar)])

CallDetermineTrend ==
    /\ Idle
    /\ \E d \in TrendFrames, indicators \in MaDicts :
        Called([fn |-> "_determine_trend", df |-> d, indicators |-> indicators,
                ret |-> _determine_trend(d, indicators)])

MaxExtrema == 3

\* prices of extrema 0.4%, 0.5%, 0.8%, 1.2% and 10% above the lowest one; all
\* are multiples of 16, so the averages of merge_levels are integers
ExtremaPrices == {16000, 16064, 16080, 16128, 16192, 17600}

\* local extrema lie at least three bars apart
ExtremaSets ==
    UNION {{{[i |-> 3 * k, price |-> f[k]] : k \in 1..n} : f \in [1..n -> ExtremaPrices]} :
            n \in 0..MaxExtrema}

CallMergeLevels ==
    /\ Idle
    /\ \E levels \in ExtremaSets :
        LET sorted_levels == SortedByPrice(levels) IN
        Called([fn |-> "merge_levels", levels |-> levels,
                sorted_levels |-> sorted_levels,
                merged_into |-> IF levels = {} THEN << >>
                                ELSE <<1>> \o MergedInto(sorted_levels, 2, sorted_levels[1], 1),
                ret |-> merge_levels(levels)])

\* the last eleven highs: flat, or with peaks at 1300, 1100 and 1200 or 1104
\* (which merges with 1100) on the third, sixth and ninth of them
PeakTails ==
    {<<1002, 1002, a, 1002, 1002, b, 1002, 1002, c, 1002, 1002>> :
        a \in {1002, 1300}, b \in {1002, 1100}, c \in {1002, 1200, 1104}}

\* the last eleven lows: flat, or with dips at 700, 900 and 800 or 896
DipTails ==
    {<<998, 998, a, 998, 998, b, 998, 998, c, 998, 998>> :
        a \in {998, 700}, b \in {998, 900}, c \in {998, 800, 896}}

LevelFrames ==
    {[nbars |-> n, close |-> 1000, high_base |-> 1002, low_base |-> 998,
      high_tail |-> h, low_tail |-> l, talib |-> [atr |-> a]] :
        n \in {29, 30, 50}, h \in PeakTails, l \in DipTails, a \in {10, 40}}

CallIdentifySupportResistance ==
    /\ Idle
    /\ \E d \in LevelFrames :
        Called([fn |-> "_identify_support_resistance", df |-> d,
                ret |-> _identify_support_resistance(d)])

\* analysis results that carry, lack, or hold None for each part
AnalysisResults ==
    LET opt(k, v) == {EmptyDict, [x \in {k} |-> None], [x \in {k} |-> v]}
        ind == opt("indicators", [rsi |-> 75, atr |-> 10])
        sr == opt("support_resistance",
                  [support |-> <<975, 950>>, resistance |-> <<1025, 1050>>])
        tr == opt("trend", [direction |-> "uptrend", strength |-> 50, description |-> ""])
        se == opt("sentiment", [overall |-> "bullish", state |-> "normal",
                                funding_rate_impact |-> "neutral"])
        vo == opt("volatility", [current |-> 15, average |-> 15, state |-> "normal",
                                 description |-> ""])
        price == {EmptyDict, [last_price |-> 1000]}
    IN  {None} \cup
        {MergeAll(<<i, s, t, e, v, q>>) :
            i \in ind, s \in sr, t \in tr, e \in se, v \in vo, q \in price}

\* complete analysis results, from the most bearish to the most bullish
ScoredResults ==
    {[symbol |-> "BTC/USDT", timeframe |-> "1h", last_price |-> 1000,
      trend |-> [direction |-> t, strength |-> 100, description |-> ""],
      indicators |-> [rsi |-> r, macd |-> m, macd_signal |-> 0, macd_hist |-> m,
                      atr |-> a],
      sentiment |-> se, support_resistance |-> sr, volatility |-> v] :
        t \in {"uptrend", "downtrend", "sideways"}, r \in {25, 50, 75},
        m \in {0 - 10, 10}, a \in {10, 800},
        se \in {[overall |-> "bullish", state |-> "normal", funding_rate_impact |-> "short_pay"],
                [overall |-> "bullish", state |-> "overbought", funding_rate_impact |-> "neutral"],
                [overall |-> "neutral", state |-> "normal", funding_rate_impact |-> "neutral"],
                [overall |-> "bearish", state |-> "oversold", funding_rate_impact |-> "neutral"],
                [overall |-> "bearish", state |-> "normal", funding_rate_impact |-> "long_pay"]},
        sr \in {[support |-> <<975, 950>>, resistance |-> <<1025, 1050>>],
                [support |-> <<990>>, resistance |-> <<1010>>],
                [support |-> <<400>>, resistance |-> <<1600>>],
                [support |-> << >>, resistance |-> << >>]},
        v \in {u \in VolatilityResults : u = EmptyDict \/ u.current \in {15, 30, 80}}}

CallGenerateSignal ==
    /\ Idle
    /\ \E p \in ThresholdConfigs, ar \in AnalysisResults \cup ScoredResults :
        Called([fn |-> "generate_signal", params |-> p, analysis_result |-> ar,
                ret |-> generate_signal(p, ar, now)])

CallEvaluateSignalStrength ==
    /\ Idle
    /\ \E p \in ThresholdConfigs, score \in Scores :
        Called([fn |-> "_evaluate_signal_strength", params |-> p, score |-> score,
                ret |-> _evaluate_signal_strength(p, score)])

CallCalculateIndicators ==
    /\ Idle
    /\ \E ap \in AnalysisParams, d \in IndicatorFrames :
        Called([fn |-> "_calculate_indicators", params |-> ap, df |-> d,
                ret |-> _calculate_indicators(ap, d)])

NextUnit ==
    \/ CallGenerateSignal
    \/ CallEvaluateSignalStrength
    \/ CallCalculateIndicators
    \/ CallCalculateScore
    \/ CallDetermineDirection
    \/ CallDetermineStopLoss
    \/ CallDetermineTargetPrice
    \/ CallCalculateRiskParameters
    \/ CallDetermineTrend
    \/ CallMergeLevels
    \/ CallIdentifySupportResistance

SpecUnit == InitUnit /\ [][NextUnit]_vars

\* the pipeline and the single calls side by side: a behaviour is a run of
\* the pipeline or one call of a method
InitAll == Init \/ InitUnit

NextAll == Next \/ NextUnit

SpecAll == InitAll /\ [][NextAll]_vars

------------------------------------------------------------------------------
(* main's loop over the units, start.py 99-150.  A unit is a (symbol,        *)
(* timeframe) pair, numbered in the order of the two nested loops.  Each     *)
(* stage of a unit succeeds or fails; a failure is an exception raised       *)
(* inside the component, which the component's own except answers.  loop is  *)
(*   pc           collect, lookup, analyze, signal, format, print, notify or *)
(*                finished                                                  *)
(*   unit         the unit at hand                                          *)
(*   market_data  the units collect_data stored a frame for                 *)
(*   analysed     the units analyze was called on                           *)
(*   reported     the units whose report was printed                        *)
(*   analysis, signal, report   the values of the unit at hand              *)
(*   notifier     whether the Telegram notifier is configured               *)
(*   failed       the stages that have failed so far                        *)

MaxUnits == 3

\* the next unit of the loops, or the end of them
Advance(l) ==
    IF l.unit < MaxUnits THEN [l EXCEPT !.unit = @ + 1, !.pc = "lookup"]
    ELSE [l EXCEPT !.pc = "finished"]

Failing(l, stage, ok) == IF ok THEN l.failed ELSE l.failed \cup {stage}

\* collect_data, one unit of its loops: the frame is stored, or the
\* exception is logged and the next unit is collected
AfterCollect(l, ok) ==
    LET m == [l EXCEPT !.market_data = IF ok THEN @ \cup {l.unit} ELSE @,
                       !.failed = Failing(l, "collect", ok)]
    IN  IF l.unit < MaxUnits THEN [m EXCEPT !.unit = @ + 1]
        ELSE [m EXCEPT !.unit = 1, !.pc = "lookup"]

\* market_data.get((symbol, timeframe)): continue when there is no frame
AfterLookup(l) ==
    IF l.unit \in l.market_data THEN [l EXCEPT !.pc = "analyze"] ELSE Advance(l)

\* analyze returns None from its except branch
AfterAnalyze(l, ok) ==
    [l EXCEPT !.analysed = @ \cup {l.unit},
              !.analysis = IF ok THEN "result" ELSE "None",
              !.failed = Failing(l, "analyze", ok),
              !.pc = "signal"]

\* generate_signal returns None without an analysis result and from its
\* except branch
AfterSignal(l, ok) ==
    [l EXCEPT !.signal = IF ok /\ l.analysis # "None" THEN "signal" ELSE "None",
              !.failed = IF l.analysis = "None" THEN @ ELSE Failing(l, "signal", ok),
              !.pc = "format"]

\* format returns a text in every case: the report, a notice that there is
\* nothing to report, or the error text of its except branch
AfterFormat(l, ok) ==
    [l EXCEPT !.report = IF l.analysis = "None" \/ l.signal = "None" THEN "notice"
                         ELSE IF ok THEN "report" ELSE "error text",
              !.failed = IF l.analysis = "None" \/ l.signal = "None" THEN @
                         ELSE Failing(l, "format", ok),
              !.pc = "print"]

\* print(report) is not inside any component: when it raises, the except
\* around the whole loop ends the run
AfterPrint(l, ok) ==
    IF ok
    THEN LET m == [l EXCEPT !.reported = @ \cup {l.unit}] IN
         IF l.notifier THEN [m EXCEPT !.pc = "notify"] ELSE Advance(m)
    ELSE [l EXCEPT !.failed = @ \cup {"print"}, !.pc = "finished"]

\* a send_message that lets its exception through to the loop
AfterNotifyRaising(l, ok) ==
    IF ok THEN Advance(l)
    ELSE [l EXCEPT !.failed = @ \cup {"notify"}, !.pc = "finished"]

\* send_message returns False from its except branch
AfterNotify(l, ok) == Advance([l EXCEPT !.failed = Failing(l, "notify", ok)])

InitLoop ==
    /\ pc = "loop"
    /\ analysis_params = EmptyDict
    /\ signal_params = TestSignalParams
    /\ df = EmptyDict
    /\ analysis_result = None
    /\ signal = None
    /\ now = 0
    /\ run = 1
    /\ first_signal = None
    /\ call = NoCall
    /\ \E n \in BOOLEAN :
        loop = [pc |-> "collect", unit |-> 1, market_data |-> {}, analysed |-> {},
                reported |-> {}, analysis |-> "None", signal |-> "None", report |-> "",
                notifier |-> n, failed |-> {}]

LoopStep(l) ==
    /\ loop' = l
    /\ UNCHANGED <<pc, analysis_params, signal_params, df, analysis_result, signal, now,
                   run, first_signal, call>>

CollectUnit == loop.pc = "collect" /\ \E ok \in BOOLEAN : LoopStep(AfterCollect(loop, ok))

LookupUnit == loop.pc = "lookup" /\ LoopStep(AfterLookup(loop))

AnalyzeUnit == loop.pc = "analyze" /\ \E ok \in BOOLEAN : LoopStep(AfterAnalyze(loop, ok))

SignalUnit == loop.pc = "signal" /\ \E ok \in BOOLEAN : LoopStep(AfterSignal(loop, ok))

FormatUnit == loop.pc = "format" /\ \E ok \in BOOLEAN : LoopStep(AfterFormat(loop, ok))

PrintUnit == loop.pc = "print" /\ \E ok \in BOOLEAN : LoopStep(AfterPrint(loop, ok))

NotifyUnit == loop.pc = "notify" /\ \E ok \in BOOLEAN : LoopStep(AfterNotify(loop, ok))

NextLoop ==
    \/ CollectUnit
    \/ LookupUnit
    \/ AnalyzeUnit
    \/ SignalUnit
    \/ FormatUnit
    \/ PrintUnit
    \/ NotifyUnit

SpecLoop == InitLoop /\ [][NextLoop]_vars

------------------------------------------------------------------------------
(* Claims *)

Thresholds(p) == Get(p, "thresholds", DefaultThresholds)

\* C1: for thresholds with sell < buy, _determine_direction answers 'long' iff
\* score >= buy, 'short' iff score <= sell, and 'neutral' iff the score is
\* strictly between the two (both boundaries belong to long and short).
C1_DirectionBoundaries ==
    call.fn = "_determine_direction" =>
        LET th == Thresholds(call.params) IN
        ({"buy", "sell"} \subseteq DOMAIN th /\ th["sell"] < th["buy"]) =>
            /\ (call.ret = "long") <=> (call.score >= 10 * th["buy"])
            /\ (call.ret = "short") <=> (call.score <= 10 * th["sell"])
            /\ (call.ret = "neutral") <=>
                   (10 * th["sell"] < call.score /\ call.score < 10 * th["buy"])

\* a score exactly at the buy threshold gives long
C1_Witness ==
    /\ call.fn = "_determine_direction"
    /\ Thresholds(call.params) = DefaultThresholds
    /\ call.score = 600
    /\ call.ret = "long"

\* C2: for a positive entry price, any support and resistance lists and any
\* ATR (or none), the stop is below the entry for long, above it for short,
\* and the entry itself for neutral.
C2_StopLossSide ==
    (call.fn = "_determine_stop_loss" /\ call.entry_price > 0) =>
        /\ call.direction = "long" => call.ret < call.entry_price
        /\ call.direction = "short" => call.ret > call.entry_price
        /\ call.direction = "neutral" => call.ret = call.entry_price

\* a long stop with no support listed and an ATR of 0
C2_Witness ==
    /\ call.fn = "_determine_stop_loss"
    /\ call.direction = "long"
    /\ call.analysis_result.support_resistance.support = << >>
    /\ call.analysis_result.indicators = [atr |-> 0]
    /\ call.ret = (call.entry_price * 98) \div 100

\* C3: the suggested leverage is an integer from 1 to 20, for every entry,
\* stop and volatility.
C3_LeverageRange ==
    call.fn = "_calculate_risk_parameters" => call.ret.suggested_leverage \in 1..20

\* C4: the composite score is within 0..100 (0..1000 tenths) for every
\* analysis result and every weight configuration.
C4_ScoreRange ==
    call.fn = "_calculate_score" => (0 <= call.ret /\ call.ret <= 1000)

\* the signal without its timestamp
Unstamped(sig) == IF sig = None THEN None ELSE [k \in DOMAIN sig \ {"timestamp"} |-> sig[k]]

RisingSeries ==
    /\ df.nbars = 100
    /\ analysis_result # None
    /\ LET ind == analysis_result.indicators IN
       /\ {"ma_5", "ma_10", "ma_20", "ma_50", "ma_100", "rsi", "macd", "macd_signal",
           "macd_hist", "bb_middle"} \subseteq DOMAIN ind
       /\ ind["ma_5"] > ind["ma_10"] /\ ind["ma_10"] > ind["ma_20"]
       /\ ind["ma_20"] > ind["ma_50"] /\ ind["ma_50"] > ind["ma_100"]
       /\ df.close > ind["ma_5"]
       /\ ind["rsi"] > 70
       /\ ind["macd"] > ind["macd_signal"] /\ ind["macd_hist"] > 0
       /\ df.close > ind["bb_middle"]

\* C6: on the 100-bar rising series the pipeline gives a bullish structure,
\* an uptrend, a score of at least 60, the direction long and
\* stop < entry < target.
C6_RisingSeriesIsLong ==
    (pc \in {"report", "done"} /\ RisingSeries) =>
        /\ analysis_result.market_structure.structure = "bullish"
        /\ analysis_result.trend.direction = "uptrend"
        /\ signal # None
        /\ signal.score >= 600
        /\ signal.direction = "long"
        /\ signal.stop_loss < signal.entry_price
        /\ signal.entry_price < signal.target_price

\* bullish stacking: every shorter-period average is at least the next longer one
StackedUp(ma_values) ==
    \A i \in 1..(Len(ma_values) - 1) : ma_values[i] >= ma_values[i + 1]

StackedDown(ma_values) ==
    \A i \in 1..(Len(ma_values) - 1) : ma_values[i] <= ma_values[i + 1]

\* C7: the averages are 'aligned up' iff every shorter-period one is at least
\* the next longer one, and 'aligned down' iff every shorter-period one is at
\* most the next longer one.
C7_AlignmentIsStacking ==
    (call.fn = "_determine_trend" /\ call.df.nbars >= 20) =>
        /\ ma_aligned_up(call.indicators) <=> StackedUp(MaValues(call.indicators))
        /\ ma_aligned_down(call.indicators) <=> StackedDown(MaValues(call.indicators))

\* C8: with at least 20 bars the trend is 'uptrend' exactly when the averages
\* are aligned up (as the method finds them) and the price is above MA50 and
\* MA100, 'downtrend' exactly when they are aligned down and the price is
\* below MA50 and MA100, both being available, and 'sideways' otherwise, so
\* whenever MA50 or MA100 is missing.
C8_TrendConditions ==
    (call.fn = "_determine_trend" /\ call.df.nbars >= 20) =>
        LET ind == call.indicators
            price == call.df.close
            both == {"ma_50", "ma_100"} \subseteq DOMAIN ind
            up == /\ ma_aligned_up(ind) /\ both
                  /\ price > ind["ma_50"] /\ price > ind["ma_100"]
            down == /\ ma_aligned_down(ind) /\ both
                    /\ price < ind["ma_50"] /\ price < ind["ma_100"]
        IN  /\ (call.ret.direction = "uptrend") <=> up
            /\ (call.ret.direction = "downtrend") <=> (~up /\ down)
            /\ (call.ret.direction = "sideways") <=> (~up /\ ~down)

\* C9: on fewer than 20 bars analyze returns a result (nothing is raised)
\* whose structure, trend and volatility are the default records: neutral
\* with strength 0, sideways with strength 0, normal with current 0 and
\* average 0.
C9_ShortSeriesDefaults ==
    (pc # "analyze" /\ df.nbars > 0 /\ df.nbars < 20) =>
        /\ analysis_result # None
        /\ analysis_result.market_structure = StructureDefault
        /\ analysis_result.market_structure.structure = "neutral"
        /\ analysis_result.market_structure.strength = Frac(0, 1)
        /\ analysis_result.trend = TrendDefault
        /\ analysis_result.trend.direction = "sideways"
        /\ analysis_result.trend.strength = 0
        /\ analysis_result.volatility.state = "normal"
        /\ analysis_result.volatility.current = 0
        /\ analysis_result.volatility.average = 0

\* a frame of 19 bars has been analysed
C9_Witness ==
    /\ pc = "generate"
    /\ df.nbars = 19
    /\ analysis_result # None
    /\ analysis_result.trend.direction = "sideways"

\* C10: with no indicator computed on a series of at least 20 bars, the
\* structure is neutral, the sentiment neutral and the trend sideways.
C10_NoIndicatorsNeutral ==
    (pc # "analyze" /\ analysis_result # None /\ df.nbars >= 20
        /\ analysis_result.indicators = EmptyDict) =>
        /\ analysis_result.market_structure.structure = "neutral"
        /\ analysis_result.sentiment.overall = "neutral"
        /\ analysis_result.trend.direction = "sideways"

\* C11: for every configured period P the indicators hold ma_P and ema_P
\* exactly when the series has at least P bars (no library call raising).
C11_MaPresentFromPeriodBars ==
    (call.fn = "_calculate_indicators" /\ ~Has(call.df, "raises")) =>
        \A P \in Range(Get(call.params, "ma_periods", DefaultMaPeriods)) :
            /\ Has(call.ret, MaKey(P)) <=> (call.df.nbars >= P)
            /\ Has(call.ret, EmaKey(P)) <=> (call.df.nbars >= P)

\* the keys one family stores
FamilyKeys(family) ==
    CASE family = "ma" -> {"ma_5", "ma_10", "ma_20", "ma_50", "ma_100", "ma_200"}
      [] family = "ema" -> {"ema_5", "ema_10", "ema_20", "ema_50", "ema_100", "ema_200"}
      [] family = "rsi" -> {"rsi"}
      [] family = "macd" -> {"macd", "macd_signal", "macd_hist"}
      [] family = "kdj" -> {"k", "d", "j"}
      [] family = "bb" -> {"bb_upper", "bb_middle", "bb_lower", "bb_width"}
      [] family = "atr" -> {"atr", "atr_percent"}
      [] family = "sar" -> {"sar"}
      [] family = "cci" -> {"cci"}
      [] OTHER -> {"obv", "obv_change"}

\* the same frame with no library call raising
Unfailing(d) == Restrict(d, DOMAIN d \ {"raises"})

\* C12: when the call of one family raises on a series of at least 50 bars,
\* the indicators returned are those of the same series without the failure,
\* less the entries of that family alone.
C12_OnlyFailingFamilyAbsent ==
    (call.fn = "_calculate_indicators" /\ Has(call.df, "raises") /\ call.df.nbars >= 50) =>
        LET full == _calculate_indicators(call.params, Unfailing(call.df)) IN
        call.ret = Restrict(full, DOMAIN full \ FamilyKeys(call.df.raises))

\* C13: generate_signal returns None exactly when the analysis result is
\* missing or has no last_price; with a last_price it returns a signal whose
\* direction is long, short or neutral, whatever parts of the analysis
\* result are present, absent or None.
C13_NoSignalOnlyWithoutPrice ==
    call.fn = "generate_signal" =>
        /\ (call.ret = None) <=>
               (call.analysis_result = None \/ ~Has(call.analysis_result, "last_price"))
        /\ call.ret # None => call.ret.direction \in Directions

\* a signal from an analysis result that holds a price and otherwise only None
C13_Witness ==
    /\ call.fn = "generate_signal"
    /\ call.analysis_result # None
    /\ DOMAIN call.analysis_result = Parts \cup {"last_price"}
    /\ \A k \in Parts : call.analysis_result[k] = None
    /\ call.ret # None
    /\ call.ret.entry_price = 1000

\* the configuration with the default value in place of every missing key
FillDefaults(p) ==
    [weights |-> Get(p, "weights", EmptyDict) @@ DefaultWeights,
     thresholds |-> Get(p, "thresholds", EmptyDict) @@ DefaultThresholds]

\* C14: with a weights or thresholds mapping that lacks a key, the score, the
\* direction and the star rating are those computed with the default value
\* in place of the missing key.
C14_MissingKeyTakesDefault ==
    /\ call.fn = "_calculate_score" =>
           call.ret = _calculate_score(FillDefaults(call.params), call.analysis_result)
    /\ call.fn = "_determine_direction" =>
           call.ret = _determine_direction(FillDefaults(call.params), call.score)
    /\ call.fn = "_evaluate_signal_strength" =>
           call.ret = _evaluate_signal_strength(FillDefaults(call.params), call.score)

\* the star table for the default thresholds, score in tenths of a point
StarTable(score) ==
    IF score >= 800 \/ score <= 0 THEN 5
    ELSE IF score >= 600 \/ score <= 200 THEN 4
    ELSE IF score >= 550 \/ score <= 450 THEN 3
    ELSE IF score >= 520 \/ score <= 480 THEN 2
    ELSE 1

\* C15: with the default thresholds the stars follow the table: 5 from 80 up
\* or 0 down, else 4 from 60 up or 20 down, else 3 from 55 up or 45 down,
\* else 2 from 52 up or 48 down, else 1; so 85 gives 5, 65 gives 4, 56 gives
\* 3, 53 gives 2, 50 gives 1, 79.9 gives 4 and 80 gives 5.
C15_StarTable ==
    (call.fn = "_evaluate_signal_strength"
        /\ Get(call.params, "thresholds", DefaultThresholds) = DefaultThresholds) =>
        /\ call.ret.stars = StarTable(call.score)
        /\ call.score = 850 => call.ret.stars = 5
        /\ call.score = 650 => call.ret.stars = 4
        /\ call.score = 560 => call.ret.stars = 3
        /\ call.score = 530 => call.ret.stars = 2
        /\ call.score = 500 => call.ret.stars = 1
        /\ call.score = 799 => call.ret.stars = 4
        /\ call.score = 800 => call.ret.stars = 5

\* the rating at the edge value 80
C15_Witness ==
    /\ call.fn = "_evaluate_signal_strength"
    /\ call.params = EmptyDict
    /\ call.score = 800
    /\ call.ret.stars = 5

RECURSIVE Gcd(_, _)
Gcd(a, b) == IF b = 0 THEN a ELSE Gcd(b, a % b)

\* a fraction of naturals in lowest terms
Reduced(x) == LET g == Gcd(x.num, x.den) IN Frac(x.num \div g, x.den \div g)

\* a / b = c / d for fractions of naturals with non-zero denominators
SameFrac(x, y) == Reduced(x) = Reduced(y)

\* x / y for fractions, y not 0
QuotFrac(x, y) == Reduced(Frac(x.num * y.den, x.den * y.num))

\* C16: risk_percent is |entry - stop| / entry and reward_percent is
\* |target - entry| / entry (both given as percentages);
\* risk_reward_ratio is reward_percent / risk_percent when risk_percent > 0
\* and 0 when risk_percent is 0.
C16_RiskRewardRatio ==
    (call.fn = "_calculate_risk_parameters" /\ call.analysis_result.volatility # None) =>
        LET risk == Abs(call.entry_price - call.stop_loss)
            reward == Abs(call.target_price - call.entry_price)
            r == call.ret
        IN  /\ SameFrac(r.risk_percent, Frac(100 * risk, call.entry_price))
            /\ SameFrac(r.reward_percent, Frac(100 * reward, call.entry_price))
            /\ r.risk_percent.num > 0 =>
                   SameFrac(r.risk_reward_ratio,
                            QuotFrac(Reduced(r.reward_percent), Reduced(r.risk_percent)))
            /\ r.risk_percent.num = 0 => r.risk_reward_ratio.num = 0

\* a risk of 2% against a reward of 4%: the ratio is 2
C16_Witness ==
    /\ call.fn = "_calculate_risk_parameters"
    /\ call.entry_price = 1000
    /\ call.stop_loss = 980
    /\ call.target_price = 1040
    /\ SameFrac(call.ret.risk_reward_ratio, Frac(2, 1))

\* the levels of one side that an analysis result lists
Listed(ar, side) ==
    LET sr == Get(ar, "support_resistance", EmptyDict) IN
    IF sr = None THEN {} ELSE Range(Get(sr, side, << >>))

\* C17: for long with stop < entry, entry < target <= entry + 2 * (entry - stop)
\* and the target is not beyond the nearest resistance above the entry, if
\* there is one; for short with stop > entry,
\* entry - 2 * (stop - entry) <= target < entry and the target is not below
\* the nearest support under the entry, if there is one.
C17_TargetBounds ==
    call.fn = "_determine_target_price" =>
        LET entry == call.entry_price
            stop == call.stop_loss
            target == call.ret
            above == {r \in Listed(call.analysis_result, "resistance") : r > entry}
            below == {x \in Listed(call.analysis_result, "support") : x < entry}
        IN  /\ (call.direction = "long" /\ stop < entry) =>
                /\ entry < target
                /\ target <= entry + 2 * (entry - stop)
                /\ above # {} => target <= SetMin(above)
            /\ (call.direction = "short" /\ stop > entry) =>
                /\ entry - 2 * (stop - entry) <= target
                /\ target < entry
                /\ below # {} => target >= SetMax(below)

\* a long target held back by a resistance nearer than twice the stop
\* distance, with another level listed below the entry
C17_Witness ==
    /\ call.fn = "_determine_target_price"
    /\ call.direction = "long"
    /\ call.entry_price = 1000
    /\ call.stop_loss = 980
    /\ call.analysis_result.support_resistance # None
    /\ call.analysis_result.support_resistance.resistance = <<950, 1005>>
    /\ call.ret = 1005

RealLevels(d, extrema) == Range(merge_levels(extrema))

\* C19: the resistance list is ascending and the support list descending,
\* and every level of the output that comes from a real local extremum is
\* above the current price if a resistance and below it if a support.
C19_LevelOrder ==
    (pc = "generate" /\ analysis_result # None) =>
        LET sr == analysis_result.support_resistance
            resistance == sr.resistance
            support == sr.support
            real_highs == RealLevels(df, LocalHighs(df))
            real_lows == RealLevels(df, LocalLows(df))
        IN  /\ \A i, j \in DOMAIN resistance : i < j => resistance[i] <= resistance[j]
            /\ \A i, j \in DOMAIN support : i < j => support[i] >= support[j]
            /\ \A i \in DOMAIN resistance :
                   resistance[i] \in real_highs => resistance[i] > df.close
            /\ \A i \in DOMAIN support :
                   support[i] \in real_lows => support[i] < df.close

\* two real supports under the price, one real resistance over it next to a
\* synthetic one
C19_Witness ==
    /\ pc = "generate"
    /\ analysis_result # None
    /\ analysis_result.support_resistance.support = <<400, 300>>
    /\ Len(analysis_result.support_resistance.resistance) = 2
    /\ analysis_result.support_resistance.resistance[2] = 1100

\* C20: when the loop over the units has ended and no failure was raised
\* outside the components (collecting, analysing, signalling, formatting
\* and notifying are the stages that failed, if any did), every unit whose
\* data was collected has been analysed and reported.
C20_FailuresStayInTheirUnit ==
    (loop.pc = "finished" /\ "print" \notin loop.failed) =>
        /\ loop.market_data \subseteq loop.analysed
        /\ loop.market_data \subseteq loop.reported

\* collecting, analysing, formatting and notifying have each failed for
\* some unit and the last unit was still reported
C20_Witness ==
    /\ loop.pc = "finished"
    /\ loop.failed = {"collect", "analyze", "format", "notify"}
    /\ loop.unit \in loop.reported
    /\ loop.unit > 1

C22_MinimumTwoPercentStop ==
    call.fn = "_determine_stop_loss" =>
        LET entry == call.entry_price
            sr == call.analysis_result.support_resistance
        IN  /\ call.direction = "long" /\ sr.support # << >> =>
                100 * (entry - call.ret) >= 2 * entry
            /\ call.direction = "short" /\ sr.resistance # << >> =>
                100 * (call.ret - entry) >= 2 * entry

\* C23: merging is single-linkage over the extrema sorted by price: two
\* extrema adjacent in price order that differ by less than 0.5% are in the
\* same merged level, and two extrema are in different merged levels only when
\* some adjacent pair between them differs by 0.5% or more.
C23_SingleLinkage ==
    call.fn = "merge_levels" =>
        LET s == call.sorted_levels
            level == call.merged_into
            Near(a, b) == 200 * Abs(b - a) < Min(a, b)
        IN  /\ \A k \in 1..(Len(s) - 1) : Near(s[k], s[k + 1]) => level[k] = level[k + 1]
            /\ \A i, j \in 1..Len(s) :
                i < j /\ level[i] # level[j] =>
                    \E k \in i..(j - 1) : ~Near(s[k], s[k + 1])

\* the k lowest elements of a set of prices, ascending
RECURSIVE Lowest(_, _)
Lowest(prices, k) ==
    IF k = 0 \/ prices = {} THEN << >>
    ELSE <<SetMin(prices)>> \o Lowest(prices \ {SetMin(prices)}, k - 1)

\* the k highest elements of a set of prices, descending
RECURSIVE Highest(_, _)
Highest(prices, k) ==
    IF k = 0 \/ prices = {} THEN << >>
    ELSE <<SetMax(prices)>> \o Highest(prices \ {SetMax(prices)}, k - 1)

\* C24: fewer than 30 bars give two empty lists; 30 bars or more give exactly
\* n_levels (2) resistances and 2 supports: the nearest merged local highs
\* above the price (merged local lows below it), and for the k = 1..missing
\* places left the levels price + 0.5 * k * ATR (price - 0.5 * k * ATR).
C24_LevelCount ==
    call.fn = "_identify_support_resistance" =>
        LET d == call.df
            highs == {x \in RealLevels(d, LocalHighs(d)) : x > d.close}
            lows == {x \in RealLevels(d, LocalLows(d)) : x < d.close}
            real_r == Lowest(highs, 2)
            real_s == Highest(lows, 2)
            atr == d.talib.atr
        IN  IF d.nbars < 30
            THEN call.ret = [support |-> << >>, resistance |-> << >>]
            ELSE /\ Len(call.ret.resistance) = 2
                 /\ Len(call.ret.support) = 2
                 /\ Range(call.ret.resistance) =
                        Range(real_r) \cup
                        {d.close + (k * atr) \div 2 : k \in 1..(2 - Len(real_r))}
                 /\ Range(call.ret.support) =
                        Range(real_s) \cup
                        {d.close - (k * atr) \div 2 : k \in 1..(2 - Len(real_s))}

\* three real resistances of which the two nearest are kept, and one real
\* support next to one synthetic support
C24_Witness ==
    /\ call.fn = "_identify_support_resistance"
    /\ call.df.nbars = 30
    /\ call.df.high_tail = <<1002, 1002, 1300, 1002, 1002, 1100, 1002, 1002, 1200, 1002, 1002>>
    /\ call.ret.resistance = <<1100, 1200>>
    /\ call.ret.support = <<995, 800>>

\* C25: the sentiment sub-score starts at 75 / 25 / 50 for bullish / bearish /
\* other, moves by -10 for long_pay and +10 for short_pay; an overbought state
\* then lowers it by 20 but not below 30 and never raises it, an oversold
\* state raises it by 20 but not above 70 and never lowers it; the result is
\* within 0..100.  With all the weight on the sentiment the composite score
\* is the sentiment sub-score.
C25_SentimentSubScore ==
    (/\ call.fn = "_calculate_score"
     /\ call.params = [weights |-> [trend |-> 0, oscillators |-> 0, volume |-> 0,
                                    sentiment |-> 10]]) =>
        LET se == call.analysis_result.sentiment
            sentiment_score == call.ret \div 10
            start == IF se.overall = "bullish" THEN 75
                     ELSE IF se.overall = "bearish" THEN 25 ELSE 50
            funded == IF se.funding_rate_impact = "long_pay" THEN start - 10
                      ELSE IF se.funding_rate_impact = "short_pay" THEN start + 10
                      ELSE start
        IN  /\ sentiment_score \in 0..100
            /\ se.state = "overbought" =>
                   /\ sentiment_score = Max(30, funded - 20)
                   /\ sentiment_score <= funded
            /\ se.state = "oversold" =>
                   /\ sentiment_score = Min(70, funded + 20)
                   /\ sentiment_score >= funded
            /\ se.state \notin {"overbought", "oversold"} => sentiment_score = funded

\* C26: for thresholds with strong_buy >= buy and strong_sell <= sell the
\* direction of a signal is long or short if and only if its star rating is
\* 4 or 5, and a neutral signal has at most 3 stars.
C26_DirectionAgreesWithStars ==
    (/\ call.fn = "generate_signal"
     /\ call.ret # None
     /\ {"strong_buy", "buy", "sell", "strong_sell"} \subseteq DOMAIN Thresholds(call.params)
     /\ Thresholds(call.params).strong_buy >= Thresholds(call.params).buy
     /\ Thresholds(call.params).strong_sell <= Thresholds(call.params).sell) =>
        /\ call.ret.direction \in {"long", "short"} <=>
               call.ret.signal_strength.stars \in {4, 5}
        /\ call.ret.direction = "neutral" => call.ret.signal_strength.stars <= 3

\* a short signal of 4 stars under the default thresholds
C26_Witness ==
    /\ call.fn = "generate_signal"
    /\ call.params = EmptyDict
    /\ call.ret # None
    /\ call.ret.direction = "short"
    /\ call.ret.signal_strength.stars = 4

\* the sentiment state is the one MarketAnalyzer derives from the RSI the
\* oscillator score reads: overbought iff RSI > 70, oversold iff RSI < 30
Coupled(ar) ==
    LET rsi == Get(ar.indicators, "rsi", 50) IN
    /\ ar.sentiment.state = "overbought" <=> rsi > 70
    /\ ar.sentiment.state = "oversold" <=> rsi < 30

\* C27: with the default weights and thresholds the composite score of
\* analysis inputs with a trend strength >= 0 lies in [17.5, 82.5], so it is
\* never <= strong_sell (0); it lies in [20.5, 79.5] when the sentiment state
\* is derived from the RSI of the oscillator score, and the signal of the
\* full pipeline is therefore never short and never has 5 stars.
C27_ScoreBand ==
    /\ (/\ call.fn = "_calculate_score"
        /\ call.params \in {EmptyDict, [weights |-> DefaultWeights]}) =>
           /\ call.ret >= 175 /\ call.ret <= 825
           /\ call.ret > 10 * DefaultThresholds.strong_sell
           /\ Coupled(call.analysis_result) => (call.ret >= 205 /\ call.ret <= 795)
    /\ (pc \in {"report", "done"} /\ signal # None) =>
           /\ signal.score >= 205 /\ signal.score <= 795
           /\ signal.direction # "short"
           /\ signal.signal_strength.stars # 5

\* the highest score of coupled inputs: an uptrend, an RSI of 65 over a rising
\* MACD, a bullish sentiment paid by the shorts
C27_Witness ==
    /\ call.fn = "_calculate_score"
    /\ call.params = EmptyDict
    /\ Coupled(call.analysis_result)
    /\ Get(call.analysis_result.indicators, "rsi", 50) = 65
    /\ call.ret = 795

\* the target is at most twice the stop distance from the entry, the
\* risk_reward_ratio at most 2 and the position_size_percent at most 20
WithinTwiceTheRisk(sig) ==
    /\ Abs(sig.target_price - sig.entry_price) <= 2 * Abs(sig.entry_price - sig.stop_loss)
    /\ sig.risk_params.risk_reward_ratio.num <= 2 * sig.risk_params.risk_reward_ratio.den
    /\ sig.risk_params.position_size_percent.num
           <= 20 * sig.risk_params.position_size_percent.den

\* C28: in every signal returned by generate_signal, called directly or by
\* the pipeline, the risk_reward_ratio is at most 2 (the target is no farther
\* from the entry than twice the stop distance) and position_size_percent is
\* at most 20, so the cap of 30 is never reached.
C28_RiskRewardAtMostTwo ==
    /\ (call.fn = "generate_signal" /\ call.ret # None) => WithinTwiceTheRisk(call.ret)
    /\ (pc \in {"report", "done"} /\ signal # None) => WithinTwiceTheRisk(signal)

\* a long signal with its target at twice the stop distance: ratio 2 and a
\* position of 20 percent
C28_Witness ==
    /\ call.fn = "generate_signal"
    /\ call.ret # None
    /\ call.ret.direction = "long"
    /\ call.ret.stop_loss = 980
    /\ call.ret.target_price = 1040
    /\ Reduced(call.ret.risk_params.risk_reward_ratio) = Frac(2, 1)
    /\ Reduced(call.ret.risk_params.position_size_percent) = Frac(20, 1)

\* C29: suggested_leverage never exceeds 10.  The base tier is 10, 5 or 3 for
\* a volatility below 2%, below 5%, or higher, a missing or zero volatility
\* being floored to 1% (tier 10); the cap by the risk only lowers the tier,
\* so the hard cap of 20 never binds.
C29_LeverageAtMostTen ==
    /\ call.fn = "_calculate_risk_parameters" =>
        LET v == call.analysis_result.volatility
            tier == IF ~Has(v, "current") \/ v.current < 20 THEN 10
                    ELSE IF v.current < 50 THEN 5
                    ELSE 3
        IN  /\ call.ret.suggested_leverage <= tier
            /\ call.ret.suggested_leverage <= 10
            /\ call.stop_loss = call.entry_price => call.ret.suggested_leverage = tier
    /\ (call.fn = "generate_signal" /\ call.ret # None) =>
           call.ret.risk_params.suggested_leverage <= 10
    /\ (pc \in {"report", "done"} /\ signal # None) =>
           signal.risk_params.suggested_leverage <= 10

\* tier 10 for a volatility of zero, kept with a stop 4% from the entry
C29_Witness ==
    /\ call.fn = "_calculate_risk_parameters"
    /\ Get(call.analysis_result.volatility, "current", 10) = 0
    /\ call.entry_price = 1000
    /\ call.stop_loss = 960
    /\ call.ret.suggested_leverage = 10

\* the trend sub-score of a direction when the strength plays no part
DirectionScore(direction) ==
    IF direction = "uptrend" THEN 100 ELSE IF direction = "downtrend" THEN 0 ELSE 50

\* C30: every uptrend or downtrend that _determine_trend produces has a
\* strength of at least 50, and in the pipeline the trend sub-score is 100
\* for an uptrend, 0 for a downtrend and 50 for sideways, so the composite
\* score is the one computed from the direction alone.
C30_StrengthPlaysNoPart ==
    /\ (call.fn = "_determine_trend" /\ call.ret.direction \in {"uptrend", "downtrend"}) =>
           call.ret.strength >= 50
    /\ (pc \in {"report", "done"} /\ signal # None) =>
           LET trend == analysis_result.trend IN
           /\ trend.direction \in {"uptrend", "downtrend"} => trend.strength >= 50
           /\ TrendScore(trend) = DirectionScore(trend.direction)
           /\ signal.score = 3 * DirectionScore(trend.direction)
                             + 3 * OscillatorScore(analysis_result.indicators)
                             + 2 * 50
                             + 2 * SentimentScore(analysis_result.sentiment)

\* the signal of an uptrend of strength 55 (an ADX of 10)
C30_Witness ==
    /\ pc = "report"
    /\ signal # None
    /\ analysis_result.trend.direction = "uptrend"
    /\ analysis_result.trend.strength = 55

====
